---------------------------- MODULE Spec2Model ----------------------------
(***************************************************************************)
(* Model of scripts/gen-icons.py: create_png_icon(size, filename), which   *)
(* rasterizes a shield into an RGBA grid, packs it into a PNG byte         *)
(* sequence (signature, IHDR, one IDAT, IEND) and writes it to a file, and *)
(* the module-level loop that calls it.                                    *)
(*                                                                         *)
(* Numbers.  The rasterizer computes with Python floats.  Spec, SpecPar    *)
(* and SpecRepeat compute with exact rationals <<numerator, denominator>>, *)
(* every decimal literal of the source standing for its decimal value.     *)
(* For every size below 80 each comparison of the source has the same      *)
(* outcome in IEEE double arithmetic and in exact arithmetic (sizes 80 and *)
(* 120 are the first where a tie |nx| = max_x is decided differently by    *)
(* rounding), and the sizes of these specifications stay far below that.   *)
(* SpecFloat runs the row loop in double arithmetic, bit for bit, and      *)
(* includes size 80.                                                       *)
(*                                                                         *)
(* Bytes are integers 0..255, byte strings are sequences of them.  32-bit  *)
(* unsigned values (CRC32, Adler-32) are pairs <<high 16 bits, low 16      *)
(* bits>>.                                                                 *)
(***************************************************************************)
EXTENDS Integers, Sequences, FiniteSets

VARIABLES
    pc,          \* position of the program: "idle" between calls, else inside create_png_icon
    calls,       \* calls of create_png_icon the module loop has started
    size,        \* argument size (width = height = size)
    y,           \* loop variable of the row loop (line 10)
    pixels,      \* list of rows, each a byte string of 4*width channel bytes
    ihdr,        \* the 13 IHDR data bytes
    raw,         \* the uncompressed scanline buffer
    compressed,  \* zlib.compress(raw, 9)
    png,         \* the byte sequence being assembled
    exists,      \* file system: the sizes whose icon-{size}.png exists
    files,       \* file system: contents of icon-{size}.png
    fopen,       \* whether the call holds the destination file open
    opens,       \* times the current call opened the destination
    writes,      \* times the current call wrote to the destination
    err          \* exception that ended the call ("" if none)

vars == <<pc, calls, size, y, pixels, ihdr, raw, compressed, png,
          exists, files, fopen, opens, writes, err>>

(***************************************************************************)
(* Bounds of the model.                                                    *)
(***************************************************************************)
MaxSize == 14
NegSizes == 1
MaxCalls == 1

Sizes == (0 - NegSizes)..MaxSize

Stale == <<0>>

(***************************************************************************)
(* Exact rationals.                                                        *)
(***************************************************************************)
Abs(n) == IF n < 0 THEN 0 - n ELSE n

RECURSIVE Gcd(_, _)
Gcd(a, b) == IF b = 0 THEN a ELSE Gcd(b, a % b)

Rat(n, d) ==
    LET g == Gcd(Abs(n), Abs(d))
        s == IF d < 0 THEN 0 - 1 ELSE 1
    IN  <<(s * n) \div g, (s * d) \div g>>

RInt(n) == <<n, 1>>
RSub(p, q) == Rat(p[1] * q[2] - q[1] * p[2], p[2] * q[2])
RMul(p, q) == Rat(p[1] * q[1], p[2] * q[2])
RDiv(p, q) == Rat(p[1] * q[2], p[2] * q[1])
RLt(p, q) == p[1] * q[2] < q[1] * p[2]
RGt(p, q) == RLt(q, p)
RAbs(p) == <<Abs(p[1]), p[2]>>

(***************************************************************************)
(* The rasterizer, lines 8-42.                                             *)
(***************************************************************************)
shield_top == Rat(0 - 85, 100)
shield_bottom == Rat(85, 100)
shield_width_top == Rat(75, 100)

Transparent == <<0, 0, 0, 0>>
Navy == <<30, 58, 95, 255>>
Accent == <<30, 136, 229, 255>>

cx(width) == Rat(width, 2)
cy(height) == Rat(height, 2)

nx(width, x) == RDiv(RSub(RInt(x), cx(width)), Rat(width, 2))
ny(height, yy) == RDiv(RSub(RInt(yy), cy(height)), Rat(height, 2))

\* OutsideRows without the test against shield_bottom
OutsideRows_TopOnly(n) == RLt(n, shield_top)

OutsideRows(n) == RLt(n, shield_top) \/ RGt(n, shield_bottom)

progress(n) == RDiv(RSub(n, shield_top), RSub(shield_bottom, shield_top))

taper(p) == RDiv(RSub(p, Rat(6, 10)), Rat(4, 10))

max_x(p) ==
    IF RLt(p, Rat(6, 10))
        THEN shield_width_top
        ELSE RMul(shield_width_top, RSub(RInt(1), RMul(taper(p), Rat(85, 100))))

border_ratio(ax, mx) == IF RGt(mx, RInt(0)) THEN RDiv(ax, mx) ELSE RInt(0)

is_border(ax, mx, p) ==
    \/ RGt(border_ratio(ax, mx), Rat(85, 100))
    \/ RLt(p, Rat(5, 100))
    \/ RGt(p, Rat(95, 100))

\* Pixel with a transparent pixel appended as three bytes: row.extend([0, 0, 0])
Pixel_RGB(sz, x, yy) ==
    LET n == ny(sz, yy)
        ax == RAbs(nx(sz, x))
    IN  IF OutsideRows(n)
            THEN <<0, 0, 0>>
            ELSE LET p == progress(n)
                     mx == max_x(p)
                 IN  IF RGt(ax, mx)
                         THEN <<0, 0, 0>>
                         ELSE IF is_border(ax, mx, p) THEN Accent ELSE Navy

Pixel(sz, x, yy) ==
    LET n == ny(sz, yy)
        ax == RAbs(nx(sz, x))
    IN  IF OutsideRows(n)
            THEN Transparent
            ELSE LET p == progress(n)
                     mx == max_x(p)
                 IN  IF RGt(ax, mx)
                         THEN Transparent
                         ELSE IF is_border(ax, mx, p) THEN Accent ELSE Navy

RECURSIVE RowFrom(_, _, _)
RowFrom(sz, yy, x) ==
    IF x >= sz THEN <<>> ELSE Pixel(sz, x, yy) \o RowFrom(sz, yy, x + 1)

Row(sz, yy) == RowFrom(sz, yy, 0)

(***************************************************************************)
(* Bit operations on naturals; 32-bit words as <<high 16, low 16>>.        *)
(***************************************************************************)
RECURSIVE Xor(_, _)
Xor(a, b) ==
    IF a = 0 THEN b
    ELSE IF b = 0 THEN a
    ELSE ((a + b) % 2) + 2 * Xor(a \div 2, b \div 2)

Xor32(u, v) == <<Xor(u[1], v[1]), Xor(u[2], v[2])>>

Shr32(u, k) == <<u[1] \div (2 ^ k), (u[2] \div (2 ^ k)) + (u[1] % (2 ^ k)) * (2 ^ (16 - k))>>

Not32(u) == <<65535 - u[1], 65535 - u[2]>>

Bytes32(u) == <<u[1] \div 256, u[1] % 256, u[2] \div 256, u[2] % 256>>

(***************************************************************************)
(* zlib.crc32 (line 47): the table-driven CRC-32 of zlib, reflected        *)
(* polynomial EDB88320, register preset to FFFFFFFF and complemented at    *)
(* the end.                                                                *)
(***************************************************************************)
CrcPoly == <<60856, 33568>>

RECURSIVE CrcEntry(_, _)
CrcEntry(c, k) ==
    IF k = 0 THEN c
    ELSE CrcEntry(IF c[2] % 2 = 1 THEN Xor32(CrcPoly, Shr32(c, 1)) ELSE Shr32(c, 1), k - 1)

CrcTable == [n \in 0..255 |-> CrcEntry(<<0, n>>, 8)]

CrcByte(c, b) == Xor32(CrcTable[Xor(c[2] % 256, b)], Shr32(c, 8))

\* the register after bytes lo..hi of buf, in order; the test on left has the left half
\* evaluated before the right half is entered, which keeps the evaluation shallow
RECURSIVE CrcUpdate(_, _, _, _)
CrcUpdate(c, buf, lo, hi) ==
    IF lo > hi THEN c
    ELSE IF lo = hi THEN CrcByte(c, buf[lo])
    ELSE LET mid == (lo + hi) \div 2
             left == CrcUpdate(c, buf, lo, mid)
         IN  IF left[1] >= 0 THEN CrcUpdate(left, buf, mid + 1, hi) ELSE left

crc32(buf) == Not32(CrcUpdate(<<65535, 65535>>, buf, 1, Len(buf)))

(***************************************************************************)
(* struct.pack (lines 47, 50).  Format 'I' accepts 0 <= v < 2^32 and       *)
(* raises struct.error otherwise; the values of the model stay below 2^31. *)
(***************************************************************************)
PackFits(v) == v >= 0

\* pack_I in little-endian order: struct.pack('<I', v)
pack_I_LE(v) == <<v % 256, (v \div 256) % 256, (v \div 65536) % 256, (v \div 16777216) % 256>>

pack_I(v) == <<(v \div 16777216) % 256, (v \div 65536) % 256, (v \div 256) % 256, v % 256>>

pack_IIBBBBB(w, h, b1, b2, b3, b4, b5) == pack_I(w) \o pack_I(h) \o <<b1, b2, b3, b4, b5>>

(***************************************************************************)
(* zlib.compress(raw, 9) (line 56).  zlib is a library, not code of the    *)
(* repository; what the program relies on is that the result is a zlib     *)
(* stream (RFC 1950) whose deflate blocks (RFC 1951) decode to raw.  The   *)
(* model emits the stream with stored blocks: the two header bytes         *)
(* 78 DA (deflate, 32K window, level 9), for every slice of at most 65535  *)
(* bytes one block header (BFINAL, BTYPE=00), LEN, NLEN and the bytes, and *)
(* the Adler-32 of raw, big-endian.                                        *)
(***************************************************************************)
AdlerBase == 65521
StoredMax == 65535

AdlerByte(s, b) == <<(s[1] + ((s[2] + b) % AdlerBase)) % AdlerBase, (s[2] + b) % AdlerBase>>

\* the sums <<s2, s1>> after bytes lo..hi of buf, in order
RECURSIVE AdlerUpdate(_, _, _, _)
AdlerUpdate(s, buf, lo, hi) ==
    IF lo > hi THEN s
    ELSE IF lo = hi THEN AdlerByte(s, buf[lo])
    ELSE LET mid == (lo + hi) \div 2
             left == AdlerUpdate(s, buf, lo, mid)
         IN  IF left[1] >= 0 THEN AdlerUpdate(left, buf, mid + 1, hi) ELSE left

adler32(buf) == AdlerUpdate(<<0, 1>>, buf, 1, Len(buf))

Le16(v) == <<v % 256, v \div 256>>

RECURSIVE StoredBlocks(_, _)
StoredBlocks(buf, from) ==
    LET n == Len(buf) - from + 1
        k == IF n > StoredMax THEN StoredMax ELSE n
        last == (n <= StoredMax)
    IN  <<IF last THEN 1 ELSE 0>> \o Le16(k) \o Le16(65535 - k)
        \o SubSeq(buf, from, from + k - 1)
        \o (IF last THEN <<>> ELSE StoredBlocks(buf, from + k))

zlib_compress(buf) == <<120, 218>> \o StoredBlocks(buf, 1) \o Bytes32(adler32(buf))

(***************************************************************************)
(* make_chunk, lines 45-47.                                                *)
(***************************************************************************)
\* make_chunk with the CRC taken over the data alone: zlib.crc32(data)
make_chunk_CrcOfData(chunk_type, data) ==
    LET chunk == chunk_type \o data
    IN  pack_I(Len(data)) \o chunk \o Bytes32(crc32(data))

\* make_chunk with the length of type and data: struct.pack('>I', len(chunk))
make_chunk_LenOfChunk(chunk_type, data) ==
    LET chunk == chunk_type \o data
    IN  pack_I(Len(chunk)) \o chunk \o Bytes32(crc32(chunk))

make_chunk(chunk_type, data) ==
    LET chunk == chunk_type \o data
    IN  pack_I(Len(data)) \o chunk \o Bytes32(crc32(chunk))

sig == <<137, 80, 78, 71, 13, 10, 26, 10>>
IHDR == <<73, 72, 68, 82>>
IDAT == <<73, 68, 65, 84>>
IEND == <<73, 69, 78, 68>>

(***************************************************************************)
(* Scanline buffer, lines 52-54.                                           *)
(***************************************************************************)
\* Scanlines without the filter byte: raw += row_pixels
RECURSIVE Scanlines_NoFilter(_, _)
Scanlines_NoFilter(rows, n) ==
    IF n = 0 THEN <<>> ELSE Scanlines_NoFilter(rows, n - 1) \o rows[n]

\* Scanlines with the rows taken last to first: for row_pixels in reversed(pixels)
RECURSIVE Scanlines_BottomUp(_, _)
Scanlines_BottomUp(rows, n) ==
    IF n = 0 THEN <<>> ELSE <<0>> \o rows[n] \o Scanlines_BottomUp(rows, n - 1)

RECURSIVE Scanlines(_, _)
Scanlines(rows, n) ==
    IF n = 0 THEN <<>> ELSE Scanlines(rows, n - 1) \o <<0>> \o rows[n]

(***************************************************************************)
(* The program.  The module loop (lines 66-70) calls create_png_icon once  *)
(* per size with the path icon-{size}.png; the model draws the size of     *)
(* each call from Sizes.  The destination may exist from an earlier run of *)
(* the script.  An exception is caught nowhere: it ends the script.        *)
(***************************************************************************)
Init ==
    /\ pc = "idle"
    /\ calls = 0
    /\ size = 0
    /\ y = 0
    /\ pixels = <<>>
    /\ ihdr = <<>>
    /\ raw = <<>>
    /\ compressed = <<>>
    /\ png = <<>>
    /\ exists \in {{}, Sizes}
    /\ files = [s \in Sizes |-> IF s \in exists THEN Stale ELSE <<>>]
    /\ fopen = FALSE
    /\ opens = 0
    /\ writes = 0
    /\ err = ""

\* lines 67-68 and 5-8: the loop calls create_png_icon(size, filename)
Call(s) ==
    /\ pc = "idle"
    /\ calls < MaxCalls
    /\ pc' = "raster"
    /\ calls' = calls + 1
    /\ size' = s
    /\ y' = 0
    /\ pixels' = <<>>
    /\ UNCHANGED <<ihdr, raw, compressed, png, exists, files, fopen, opens, writes, err>>

\* lines 10-43: one iteration of the row loop
RasterRow ==
    /\ pc = "raster"
    /\ y < size
    /\ pixels' = Append(pixels, Row(size, y))
    /\ y' = y + 1
    /\ UNCHANGED <<pc, calls, size, ihdr, raw, compressed, png, exists, files, fopen,
                   opens, writes, err>>

\* line 10: range(height) is exhausted (at once when height <= 0)
RasterDone ==
    /\ pc = "raster"
    /\ y >= size
    /\ pc' = "ihdr"
    /\ UNCHANGED <<calls, size, y, pixels, ihdr, raw, compressed, png, exists, files,
                   fopen, opens, writes, err>>

\* line 50: ihdr = struct.pack('>IIBBBBB', width, height, 8, 6, 0, 0, 0)
PackIhdr ==
    /\ pc = "ihdr"
    /\ PackFits(size)
    /\ ihdr' = pack_IIBBBBB(size, size, 8, 6, 0, 0, 0)
    /\ pc' = "raw"
    /\ UNCHANGED <<calls, size, y, pixels, raw, compressed, png, exists, files, fopen,
                   opens, writes, err>>

\* line 50: struct.pack raises struct.error for a width outside 0..2^32-1
PackIhdrRaise ==
    /\ pc = "ihdr"
    /\ ~PackFits(size)
    /\ pc' = "raised"
    /\ err' = "struct.error"
    /\ UNCHANGED <<calls, size, y, pixels, ihdr, raw, compressed, png, exists, files,
                   fopen, opens, writes>>

\* lines 52-54: raw = filter byte 0 and the row, for every row
BuildRaw ==
    /\ pc = "raw"
    /\ raw' = Scanlines(pixels, Len(pixels))
    /\ pc' = "compress"
    /\ UNCHANGED <<calls, size, y, pixels, ihdr, compressed, png, exists, files, fopen,
                   opens, writes, err>>

\* line 56: compressed = zlib.compress(raw, 9)
Compress ==
    /\ pc = "compress"
    /\ compressed' = zlib_compress(raw)
    /\ pc' = "png_sig"
    /\ UNCHANGED <<calls, size, y, pixels, ihdr, raw, png, exists, files, fopen, opens,
                   writes, err>>

\* CompressRaise in a program that opens the destination before it compresses
CompressRaise_AfterOpen ==
    /\ pc = "compress"
    /\ pc' = "raised"
    /\ err' = "zlib.error"
    /\ exists' = exists \cup {size}
    /\ files' = [files EXCEPT ![size] = <<>>]
    /\ UNCHANGED <<calls, size, y, pixels, ihdr, raw, compressed, png, fopen, opens, writes>>

\* line 56: zlib.compress raises (zlib.error, MemoryError)
CompressRaise ==
    /\ pc = "compress"
    /\ pc' = "raised"
    /\ err' = "zlib.error"
    /\ UNCHANGED <<calls, size, y, pixels, ihdr, raw, compressed, png, exists, files,
                   fopen, opens, writes>>

\* line 58: png = sig
PngSig ==
    /\ pc = "png_sig"
    /\ png' = sig
    /\ pc' = "png_ihdr"
    /\ UNCHANGED <<calls, size, y, pixels, ihdr, raw, compressed, exists, files, fopen,
                   opens, writes, err>>

\* line 59: png += make_chunk(b'IHDR', ihdr)
PngIhdr ==
    /\ pc = "png_ihdr"
    /\ png' = png \o make_chunk(IHDR, ihdr)
    /\ pc' = "png_idat"
    /\ UNCHANGED <<calls, size, y, pixels, ihdr, raw, compressed, exists, files, fopen,
                   opens, writes, err>>

\* line 60: png += make_chunk(b'IDAT', compressed)
PngIdat ==
    /\ pc = "png_idat"
    /\ png' = png \o make_chunk(IDAT, compressed)
    /\ pc' = "png_iend"
    /\ UNCHANGED <<calls, size, y, pixels, ihdr, raw, compressed, exists, files, fopen,
                   opens, writes, err>>

\* PngIend that appends no IEND chunk
PngIend_Missing ==
    /\ pc = "png_iend"
    /\ pc' = "open"
    /\ UNCHANGED <<calls, size, y, pixels, ihdr, raw, compressed, png, exists, files,
                   fopen, opens, writes, err>>

\* line 61: png += make_chunk(b'IEND', b'')
PngIend ==
    /\ pc = "png_iend"
    /\ png' = png \o make_chunk(IEND, <<>>)
    /\ pc' = "open"
    /\ UNCHANGED <<calls, size, y, pixels, ihdr, raw, compressed, exists, files, fopen,
                   opens, writes, err>>

\* Open with mode 'ab': what the destination holds is kept
Open_Append ==
    /\ pc = "open"
    /\ exists' = exists \cup {size}
    /\ files' = files
    /\ fopen' = TRUE
    /\ opens' = opens + 1
    /\ pc' = "write"
    /\ UNCHANGED <<calls, size, y, pixels, ihdr, raw, compressed, png, writes, err>>

\* line 63: open(filename, 'wb') creates the file or truncates it
Open ==
    /\ pc = "open"
    /\ exists' = exists \cup {size}
    /\ files' = [files EXCEPT ![size] = <<>>]
    /\ fopen' = TRUE
    /\ opens' = opens + 1
    /\ pc' = "write"
    /\ UNCHANGED <<calls, size, y, pixels, ihdr, raw, compressed, png, writes, err>>

\* line 63: open raises OSError (the icons directory is missing, no permission)
OpenRaise ==
    /\ pc = "open"
    /\ pc' = "raised"
    /\ err' = "OSError"
    /\ UNCHANGED <<calls, size, y, pixels, ihdr, raw, compressed, png, exists, files,
                   fopen, opens, writes>>

\* line 64: f.write(png)
Write ==
    /\ pc = "write"
    /\ files' = [files EXCEPT ![size] = @ \o png]
    /\ writes' = writes + 1
    /\ pc' = "close"
    /\ UNCHANGED <<calls, size, y, pixels, ihdr, raw, compressed, png, exists, fopen,
                   opens, err>>

\* lines 63-64: leaving the with block closes the file
Close ==
    /\ pc = "close"
    /\ fopen' = FALSE
    /\ pc' = "done"
    /\ UNCHANGED <<calls, size, y, pixels, ihdr, raw, compressed, png, exists, files,
                   opens, writes, err>>

\* lines 64-69: create_png_icon returns, its locals are gone, the loop goes on
Return ==
    /\ pc = "done"
    /\ pc' = "idle"
    /\ size' = 0
    /\ y' = 0
    /\ pixels' = <<>>
    /\ ihdr' = <<>>
    /\ raw' = <<>>
    /\ compressed' = <<>>
    /\ png' = <<>>
    /\ opens' = 0
    /\ writes' = 0
    /\ UNCHANGED <<calls, exists, files, fopen, err>>

Next ==
    \/ \E s \in Sizes : Call(s)
    \/ RasterRow
    \/ RasterDone
    \/ PackIhdr
    \/ PackIhdrRaise
    \/ BuildRaw
    \/ Compress
    \/ CompressRaise
    \/ PngSig
    \/ PngIhdr
    \/ PngIdat
    \/ PngIend
    \/ Open
    \/ OpenRaise
    \/ Write
    \/ Close
    \/ Return

Spec == Init /\ [][Next]_vars

(***************************************************************************)
(* Python floats are IEEE 754 doubles: 53 significant bits, every          *)
(* operation rounded to nearest, ties to even.  The operations below       *)
(* compute them bit for bit.  A natural number wider than a machine        *)
(* integer is a sequence of limbs below LimbBase, least significant        *)
(* first, without leading zero limbs; a double is <<s, n, e>>, standing    *)
(* for s * n * 2^e with s = 1 or -1 and n such a natural.  The magnitudes  *)
(* the rasterizer meets are far from the overflow and subnormal ranges,    *)
(* so the exponent is left unbounded.                                      *)
(***************************************************************************)
LimbBits == 15
MantBits == 53

LimbBase == 2 ^ LimbBits

Limb(a, i) == IF i <= Len(a) THEN a[i] ELSE 0

RECURSIVE BTrim(_)
BTrim(a) == IF Len(a) > 0 /\ a[Len(a)] = 0 THEN BTrim(SubSeq(a, 1, Len(a) - 1)) ELSE a

BInt(n) == BTrim(<<n % LimbBase, (n \div LimbBase) % LimbBase, n \div (LimbBase * LimbBase)>>)

RECURSIVE BCmpFrom(_, _, _)
BCmpFrom(a, b, i) ==
    IF i = 0 THEN 0
    ELSE IF Limb(a, i) > Limb(b, i) THEN 1
    ELSE IF Limb(a, i) < Limb(b, i) THEN 0 - 1
    ELSE BCmpFrom(a, b, i - 1)

BCmp(a, b) == BCmpFrom(a, b, IF Len(a) > Len(b) THEN Len(a) ELSE Len(b))

RECURSIVE BAddFrom(_, _, _, _)
BAddFrom(a, b, i, carry) ==
    IF i > Len(a) /\ i > Len(b)
    THEN IF carry = 0 THEN <<>> ELSE <<carry>>
    ELSE LET t == Limb(a, i) + Limb(b, i) + carry
         IN  <<t % LimbBase>> \o BAddFrom(a, b, i + 1, t \div LimbBase)

BAdd(a, b) == BAddFrom(a, b, 1, 0)

\* a - b for a >= b
RECURSIVE BSubFrom(_, _, _, _)
BSubFrom(a, b, i, borrow) ==
    IF i > Len(a) THEN <<>>
    ELSE LET t == a[i] - Limb(b, i) - borrow
         IN  IF t < 0 THEN <<t + LimbBase>> \o BSubFrom(a, b, i + 1, 1)
             ELSE <<t>> \o BSubFrom(a, b, i + 1, 0)

BSub(a, b) == BTrim(BSubFrom(a, b, 1, 0))

\* a * m for one limb m
RECURSIVE BMulLimb(_, _, _, _)
BMulLimb(a, m, i, carry) ==
    IF i > Len(a)
    THEN IF carry = 0 THEN <<>> ELSE <<carry>>
    ELSE LET t == a[i] * m + carry
         IN  <<t % LimbBase>> \o BMulLimb(a, m, i + 1, t \div LimbBase)

RECURSIVE BMulFrom(_, _, _)
BMulFrom(a, b, j) ==
    IF j > Len(b) THEN <<>>
    ELSE BAdd(BMulLimb(a, b[j], 1, 0), <<0>> \o BMulFrom(a, b, j + 1))

BMul(a, b) == BTrim(BMulFrom(a, b, 1))

\* a * 2^k
BShl(a, k) ==
    IF a = <<>> THEN <<>>
    ELSE [i \in 1..(k \div LimbBits) |-> 0] \o BMulLimb(a, 2 ^ (k % LimbBits), 1, 0)

\* a \div 2^k
BShr(a, k) ==
    LET q == k \div LimbBits
        r == k % LimbBits
    IN  IF q >= Len(a) THEN <<>>
        ELSE BTrim([i \in 1..(Len(a) - q) |->
                       (a[i + q] \div 2 ^ r)
                           + (Limb(a, i + q + 1) % 2 ^ r) * 2 ^ (LimbBits - r)])

\* a % 2^k
BLow(a, k) == BSub(a, BShl(BShr(a, k), k))

RECURSIVE BitsOf(_)
BitsOf(n) == IF n = 0 THEN 0 ELSE 1 + BitsOf(n \div 2)

BBitLen(a) == IF a = <<>> THEN 0 ELSE LimbBits * (Len(a) - 1) + BitsOf(a[Len(a)])

BBit(a, i) == (Limb(a, i \div LimbBits + 1) \div 2 ^ (i % LimbBits)) % 2

BOdd(a) == Limb(a, 1) % 2 = 1

\* the largest digit q <= guess with d * q <= r
RECURSIVE BDigit(_, _, _)
BDigit(r, d, guess) ==
    IF BCmp(BMulLimb(d, guess, 1, 0), r) > 0 THEN BDigit(r, d, guess - 1) ELSE guess

\* long division of a by d, d with its top limb at least LimbBase / 2: limbs j down to 1
\* of a are brought down onto the remainder r, one quotient limb each, guessed from the
\* top two limbs of the remainder and the top limb of d
RECURSIVE BDivLimbs(_, _, _, _, _)
BDivLimbs(a, d, j, q, r) ==
    IF j < 1 THEN <<BTrim(q), r>>
    ELSE LET r1 == BTrim(<<a[j]>> \o r)
             guess == (Limb(r1, Len(d) + 1) * LimbBase + Limb(r1, Len(d))) \div d[Len(d)]
             digit == BDigit(r1, d, IF guess >= LimbBase THEN LimbBase - 1 ELSE guess)
             r2 == BSub(r1, BMulLimb(d, digit, 1, 0))
         IN  IF Len(r2) >= 0 THEN BDivLimbs(a, d, j - 1, <<digit>> \o q, r2) ELSE <<q, r2>>

\* <<a \div d, a % d>> for d # 0
BDivMod(a, d) ==
    LET sh == LimbBits - BitsOf(d[Len(d)])
        as == BShl(a, sh)
        qr == BDivLimbs(as, BShl(d, sh), Len(as), <<>>, <<>>)
    IN  <<qr[1], BShr(qr[2], sh)>>

\* round to nearest, ties to even, at MantBits significant bits
float_round(s, n, e) ==
    LET bl == BBitLen(n)
    IN  IF bl <= MantBits THEN <<s, n, e>>
        ELSE LET d == bl - MantBits
                 q == BShr(n, d)
                 c == BCmp(BLow(n, d), BShl(<<1>>, d - 1))
             IN  <<s, IF c > 0 \/ (c = 0 /\ BOdd(q)) THEN BAdd(q, <<1>>) ELSE q, e + d>>

float(n) == <<IF n < 0 THEN 0 - 1 ELSE 1, BInt(Abs(n)), 0>>

float_neg(a) == <<0 - a[1], a[2], a[3]>>

float_abs(a) == <<1, a[2], a[3]>>

\* a + b before rounding
ExactSum(a, b) ==
    LET e == IF a[3] < b[3] THEN a[3] ELSE b[3]
        na == BShl(a[2], a[3] - e)
        nb == BShl(b[2], b[3] - e)
        c == BCmp(na, nb)
    IN  IF a[1] = b[1] THEN <<a[1], BAdd(na, nb), e>>
        ELSE IF c = 0 THEN <<1, <<>>, 0>>
        ELSE IF c > 0 THEN <<a[1], BSub(na, nb), e>>
        ELSE <<b[1], BSub(nb, na), e>>

\* Python evaluates the operands of an operation once, before the operation: ab is the
\* pair of their values
float_add(a, b) ==
    CHOOSE r \in {LET t == ExactSum(ab[1], ab[2]) IN float_round(t[1], t[2], t[3]) :
                     ab \in {<<a, b>>}} : TRUE

float_sub(a, b) == float_add(a, float_neg(b))

float_mul(a, b) ==
    CHOOSE r \in {float_round(ab[1][1] * ab[2][1], BMul(ab[1][2], ab[2][2]),
                               ab[1][3] + ab[2][3]) : ab \in {<<a, b>>}} : TRUE

\* the quotient of the values a and b # 0: to MantBits + 3 bits and more, then one sticky
\* bit, then rounded
Quotient(a, b) ==
    IF a[2] = <<>> THEN <<1, <<>>, 0>>
    ELSE LET need == MantBits + 3 + BBitLen(b[2]) - BBitLen(a[2])
             k == IF need > 0 THEN need ELSE 0
             qr == BDivMod(BShl(a[2], k), b[2])
             n == BAdd(BShl(qr[1], 1), IF qr[2] = <<>> THEN <<>> ELSE <<1>>)
         IN  float_round(a[1] * b[1], n, a[3] - b[3] - k - 1)

float_div(a, b) == CHOOSE r \in {Quotient(ab[1], ab[2]) : ab \in {<<a, b>>}} : TRUE

\* the sign of a - b: -1, 0 or 1
float_cmp(a, b) ==
    CHOOSE r \in {LET t == ExactSum(ab[1], float_neg(ab[2]))
                  IN  IF t[2] = <<>> THEN 0 ELSE t[1] : ab \in {<<a, b>>}} : TRUE

float_lt(a, b) == float_cmp(a, b) < 0

float_gt(a, b) == float_cmp(a, b) > 0

\* the double a decimal literal num/den denotes
literal(num, den) == float_div(float(num), float(den))

(***************************************************************************)
(* The rasterizer of lines 13-42 in double arithmetic, operation for       *)
(* operation as the source writes it.  A decimal literal is the double     *)
(* nearest to it.  ny, progress and max_x depend on the row alone: the     *)
(* source recomputes them for every pixel and gets the same doubles, the   *)
(* model computes them once a row.                                         *)
(***************************************************************************)
FloatMaxSize == 9
TieSize == 80

FloatSizes == (1..FloatMaxSize) \cup {TieSize}

Lit085 == literal(85, 100)
Lit075 == literal(75, 100)
Lit06 == literal(6, 10)
Lit04 == literal(4, 10)
Lit005 == literal(5, 100)
Lit095 == literal(95, 100)

f_shield_top == float_neg(Lit085)
f_shield_bottom == Lit085
f_shield_width_top == Lit075

f_cx(width) == float_div(float(width), float(2))
f_cy(height) == float_div(float(height), float(2))

\* f_nx sampled at the pixel's centre: (x + 0.5 - cx) / (width / 2)
f_nx_Centre(width, x) ==
    float_div(float_sub(float_add(float(x), literal(5, 10)), f_cx(width)),
              float_div(float(width), float(2)))

f_nx(width, x) == float_div(float_sub(float(x), f_cx(width)), float_div(float(width), float(2)))
f_ny(height, yy) ==
    float_div(float_sub(float(yy), f_cy(height)), float_div(float(height), float(2)))

f_OutsideRows(n) == float_lt(n, f_shield_top) \/ float_gt(n, f_shield_bottom)

f_progress(n) == float_div(float_sub(n, f_shield_top), float_sub(f_shield_bottom, f_shield_top))

f_taper(p) == float_div(float_sub(p, Lit06), Lit04)

\* f_max_x tapering to a point: shield_width_top * (1 - taper)
f_max_x_Point(p) ==
    IF float_lt(p, Lit06)
        THEN f_shield_width_top
        ELSE float_mul(f_shield_width_top, float_sub(float(1), f_taper(p)))

f_max_x(p) ==
    IF float_lt(p, Lit06)
        THEN f_shield_width_top
        ELSE float_mul(f_shield_width_top, float_sub(float(1), float_mul(f_taper(p), Lit085)))

f_border_ratio(ax, mx) == IF float_gt(mx, float(0)) THEN float_div(ax, mx) ELSE float(0)

\* f_is_border without the edge test border_ratio > 0.85
f_is_border_NoEdge(ax, mx, p) == float_lt(p, Lit005) \/ float_gt(p, Lit095)

f_is_border(ax, mx, p) ==
    \/ float_gt(f_border_ratio(ax, mx), Lit085)
    \/ float_lt(p, Lit005)
    \/ float_gt(p, Lit095)

\* nx of every column of every size: it depends on width and x alone
NxOf == [sz \in FloatSizes |-> [x \in 0..(sz - 1) |-> f_nx(sz, x)]]

\* lines 31-42 for one pixel of a row inside the shield's rows
f_Inside(sz, x, p, mx) ==
    LET ax == float_abs(NxOf[sz][x])
    IN  IF float_gt(ax, mx)
            THEN Transparent
            ELSE IF f_is_border(ax, mx, p) THEN Accent ELSE Navy

RECURSIVE f_InsideFrom(_, _, _, _)
f_InsideFrom(sz, x, p, mx) ==
    IF x >= sz THEN <<>> ELSE f_Inside(sz, x, p, mx) \o f_InsideFrom(sz, x + 1, p, mx)

f_Row(sz, yy) ==
    LET n == f_ny(sz, yy)
    IN  IF f_OutsideRows(n)
            THEN [i \in 1..(4 * sz) |-> 0]
            ELSE CHOOSE row \in {f_InsideFrom(sz, 0, pm[1], pm[2]) :
                                      pm \in {<<p, f_max_x(p)>> : p \in {f_progress(n)}}} :
                     TRUE

(***************************************************************************)
(* The row loop of create_png_icon run in double arithmetic, for the first *)
(* sizes and for size TieSize, the first size at which a pixel lies        *)
(* exactly on the tapered edge of the shield.                              *)
(***************************************************************************)
\* lines 5-8
FloatCall(s) ==
    /\ pc = "idle"
    /\ calls < MaxCalls
    /\ pc' = "raster"
    /\ calls' = calls + 1
    /\ size' = s
    /\ y' = 0
    /\ pixels' = <<>>
    /\ UNCHANGED <<ihdr, raw, compressed, png, exists, files, fopen, opens, writes, err>>

\* lines 10-43: one iteration of the row loop
FloatRasterRow ==
    /\ pc = "raster"
    /\ y < size
    /\ pixels' = Append(pixels, f_Row(size, y))
    /\ y' = y + 1
    /\ UNCHANGED <<pc, calls, size, ihdr, raw, compressed, png, exists, files, fopen,
                   opens, writes, err>>

\* line 10: range(height) is exhausted; the grid is complete
FloatRasterDone ==
    /\ pc = "raster"
    /\ y >= size
    /\ pc' = "ihdr"
    /\ UNCHANGED <<calls, size, y, pixels, ihdr, raw, compressed, png, exists, files,
                   fopen, opens, writes, err>>

FloatNext ==
    \/ \E s \in FloatSizes : FloatCall(s)
    \/ FloatRasterRow
    \/ FloatRasterDone

SpecFloat == Init /\ [][FloatNext]_vars

(***************************************************************************)
(* create_png_icon as a function of size alone: the steps of lines 6-61 in *)
(* program order, which is what one call of the sequential loop writes.    *)
(***************************************************************************)
Grid(sz) == [r \in 1..sz |-> Row(sz, r - 1)]

SequentialPng(sz) ==
    sig \o make_chunk(IHDR, pack_IIBBBBB(sz, sz, 8, 6, 0, 0, 0))
        \o make_chunk(IDAT, zlib_compress(Scanlines(Grid(sz), sz)))
        \o make_chunk(IEND, <<>>)

(***************************************************************************)
(* The calls of the loop of lines 66-70 run as concurrent tasks, one per    *)
(* size, with no coordination between them.  Every task runs               *)
(* the steps of create_png_icon on locals of its own, so pc, size, y,      *)
(* pixels, ihdr, raw, compressed, png, fopen, opens, writes and err are    *)
(* here functions of the task; the file system is the one thing the tasks  *)
(* share.  The steps of different tasks interleave in any order.           *)
(***************************************************************************)
ParTasks == 2
ParMaxSize == 2

Tasks == 1..ParTasks
ParSizes == 1..ParMaxSize

\* line 68: the destination of the call for size sz, icon-{size}.png
\* Path for a loop that passes every call the same file name
Path_Shared(sz) == 1

Path(sz) == sz

ParInit ==
    /\ pc = [t \in Tasks |-> "idle"]
    /\ calls = 0
    /\ size \in {f \in [Tasks -> ParSizes] : \A t, u \in Tasks : t # u => f[t] # f[u]}
    /\ y = [t \in Tasks |-> 0]
    /\ pixels = [t \in Tasks |-> <<>>]
    /\ ihdr = [t \in Tasks |-> <<>>]
    /\ raw = [t \in Tasks |-> <<>>]
    /\ compressed = [t \in Tasks |-> <<>>]
    /\ png = [t \in Tasks |-> <<>>]
    /\ exists \in {{}, Sizes}
    /\ files = [s \in Sizes |-> IF s \in exists THEN Stale ELSE <<>>]
    /\ fopen = [t \in Tasks |-> FALSE]
    /\ opens = [t \in Tasks |-> 0]
    /\ writes = [t \in Tasks |-> 0]
    /\ err = [t \in Tasks |-> ""]

\* lines 5-8
ParCall(t) ==
    /\ pc[t] = "idle"
    /\ pc' = [pc EXCEPT ![t] = "raster"]
    /\ y' = [y EXCEPT ![t] = 0]
    /\ pixels' = [pixels EXCEPT ![t] = <<>>]
    /\ UNCHANGED <<calls, size, ihdr, raw, compressed, png, exists, files, fopen, opens,
                   writes, err>>

\* lines 10-43
ParRasterRow(t) ==
    /\ pc[t] = "raster"
    /\ y[t] < size[t]
    /\ pixels' = [pixels EXCEPT ![t] = Append(@, Row(size[t], y[t]))]
    /\ y' = [y EXCEPT ![t] = @ + 1]
    /\ UNCHANGED <<pc, calls, size, ihdr, raw, compressed, png, exists, files, fopen,
                   opens, writes, err>>

\* line 10: range(height) is exhausted
ParRasterDone(t) ==
    /\ pc[t] = "raster"
    /\ y[t] >= size[t]
    /\ pc' = [pc EXCEPT ![t] = "ihdr"]
    /\ UNCHANGED <<calls, size, y, pixels, ihdr, raw, compressed, png, exists, files,
                   fopen, opens, writes, err>>

\* line 50
ParPackIhdr(t) ==
    /\ pc[t] = "ihdr"
    /\ PackFits(size[t])
    /\ ihdr' = [ihdr EXCEPT ![t] = pack_IIBBBBB(size[t], size[t], 8, 6, 0, 0, 0)]
    /\ pc' = [pc EXCEPT ![t] = "raw"]
    /\ UNCHANGED <<calls, size, y, pixels, raw, compressed, png, exists, files, fopen,
                   opens, writes, err>>

\* lines 52-54
ParBuildRaw(t) ==
    /\ pc[t] = "raw"
    /\ raw' = [raw EXCEPT ![t] = Scanlines(pixels[t], Len(pixels[t]))]
    /\ pc' = [pc EXCEPT ![t] = "compress"]
    /\ UNCHANGED <<calls, size, y, pixels, ihdr, compressed, png, exists, files, fopen,
                   opens, writes, err>>

\* line 56
ParCompress(t) ==
    /\ pc[t] = "compress"
    /\ compressed' = [compressed EXCEPT ![t] = zlib_compress(raw[t])]
    /\ pc' = [pc EXCEPT ![t] = "png_sig"]
    /\ UNCHANGED <<calls, size, y, pixels, ihdr, raw, png, exists, files, fopen, opens,
                   writes, err>>

\* line 58
ParPngSig(t) ==
    /\ pc[t] = "png_sig"
    /\ png' = [png EXCEPT ![t] = sig]
    /\ pc' = [pc EXCEPT ![t] = "png_ihdr"]
    /\ UNCHANGED <<calls, size, y, pixels, ihdr, raw, compressed, exists, files, fopen,
                   opens, writes, err>>

\* line 59
ParPngIhdr(t) ==
    /\ pc[t] = "png_ihdr"
    /\ png' = [png EXCEPT ![t] = @ \o make_chunk(IHDR, ihdr[t])]
    /\ pc' = [pc EXCEPT ![t] = "png_idat"]
    /\ UNCHANGED <<calls, size, y, pixels, ihdr, raw, compressed, exists, files, fopen,
                   opens, writes, err>>

\* line 60
ParPngIdat(t) ==
    /\ pc[t] = "png_idat"
    /\ png' = [png EXCEPT ![t] = @ \o make_chunk(IDAT, compressed[t])]
    /\ pc' = [pc EXCEPT ![t] = "png_iend"]
    /\ UNCHANGED <<calls, size, y, pixels, ihdr, raw, compressed, exists, files, fopen,
                   opens, writes, err>>

\* line 61
ParPngIend(t) ==
    /\ pc[t] = "png_iend"
    /\ png' = [png EXCEPT ![t] = @ \o make_chunk(IEND, <<>>)]
    /\ pc' = [pc EXCEPT ![t] = "open"]
    /\ UNCHANGED <<calls, size, y, pixels, ihdr, raw, compressed, exists, files, fopen,
                   opens, writes, err>>

\* line 63: open(filename, 'wb') creates the file or truncates it
ParOpen(t) ==
    /\ pc[t] = "open"
    /\ exists' = exists \cup {Path(size[t])}
    /\ files' = [files EXCEPT ![Path(size[t])] = <<>>]
    /\ fopen' = [fopen EXCEPT ![t] = TRUE]
    /\ opens' = [opens EXCEPT ![t] = @ + 1]
    /\ pc' = [pc EXCEPT ![t] = "write"]
    /\ UNCHANGED <<calls, size, y, pixels, ihdr, raw, compressed, png, writes, err>>

\* line 64: f.write(png)
ParWrite(t) ==
    /\ pc[t] = "write"
    /\ files' = [files EXCEPT ![Path(size[t])] = @ \o png[t]]
    /\ writes' = [writes EXCEPT ![t] = @ + 1]
    /\ pc' = [pc EXCEPT ![t] = "close"]
    /\ UNCHANGED <<calls, size, y, pixels, ihdr, raw, compressed, png, exists, fopen,
                   opens, err>>

\* lines 63-64: leaving the with block closes the file; the task ends
ParClose(t) ==
    /\ pc[t] = "close"
    /\ fopen' = [fopen EXCEPT ![t] = FALSE]
    /\ pc' = [pc EXCEPT ![t] = "done"]
    /\ UNCHANGED <<calls, size, y, pixels, ihdr, raw, compressed, png, exists, files,
                   opens, writes, err>>

ParNext ==
    \E t \in Tasks :
        \/ ParCall(t)
        \/ ParRasterRow(t)
        \/ ParRasterDone(t)
        \/ ParPackIhdr(t)
        \/ ParBuildRaw(t)
        \/ ParCompress(t)
        \/ ParPngSig(t)
        \/ ParPngIhdr(t)
        \/ ParPngIdat(t)
        \/ ParPngIend(t)
        \/ ParOpen(t)
        \/ ParWrite(t)
        \/ ParClose(t)

SpecPar == ParInit /\ [][ParNext]_vars

(***************************************************************************)
(* The loop of lines 67-70 calling create_png_icon several times in a row, *)
(* the same size allowed again, over the first positive sizes.  The steps  *)
(* of a call are those of Spec; a call that raises ends the program.       *)
(***************************************************************************)
RepCalls == 2
RepMaxSize == 3

RepSizes == 1..RepMaxSize

\* lines 5-8, entered from the loop of lines 67-70
RepCall(s) ==
    /\ pc = "idle"
    /\ calls < RepCalls
    /\ pc' = "raster"
    /\ calls' = calls + 1
    /\ size' = s
    /\ y' = 0
    /\ pixels' = <<>>
    /\ UNCHANGED <<ihdr, raw, compressed, png, exists, files, fopen, opens, writes, err>>

RepNext ==
    \/ \E s \in RepSizes : RepCall(s)
    \/ RasterRow
    \/ RasterDone
    \/ PackIhdr
    \/ BuildRaw
    \/ Compress
    \/ CompressRaise
    \/ PngSig
    \/ PngIhdr
    \/ PngIdat
    \/ PngIend
    \/ Open
    \/ OpenRaise
    \/ Write
    \/ Close
    \/ Return

SpecRepeat == Init /\ [][RepNext]_vars

(***************************************************************************)
(* A PNG reader, used to state the properties of the bytes produced: the   *)
(* chunk walk of a decoder and the inflate of a zlib stream of stored      *)
(* blocks.                                                                 *)
(***************************************************************************)
U32(buf, i) == ((buf[i] * 256 + buf[i + 1]) * 256 + buf[i + 2]) * 256 + buf[i + 3]

Truncated == [length |-> 0 - 1, type |-> <<>>, data |-> <<>>, crc |-> <<>>]

\* the chunks from offset pos on; bytes that do not frame a chunk give Truncated
RECURSIVE ChunksFrom(_, _)
ChunksFrom(buf, pos) ==
    IF pos > Len(buf) THEN <<>>
    ELSE IF pos + 11 > Len(buf) \/ buf[pos] >= 128 THEN <<Truncated>>
    ELSE LET n == U32(buf, pos)
         IN  IF pos + 11 + n > Len(buf) THEN <<Truncated>>
             ELSE <<[length |-> n,
                     type |-> SubSeq(buf, pos + 4, pos + 7),
                     data |-> SubSeq(buf, pos + 8, pos + 7 + n),
                     crc |-> SubSeq(buf, pos + 8 + n, pos + 11 + n)]>>
                  \o ChunksFrom(buf, pos + 12 + n)

Chunks(buf) == ChunksFrom(buf, Len(sig) + 1)

NoData == [ok |-> FALSE, data |-> <<>>, next |-> 0]

\* the stored blocks from offset pos on, up to the final one
RECURSIVE InflateFrom(_, _)
InflateFrom(z, pos) ==
    IF pos + 4 > Len(z) THEN NoData
    ELSE LET n == z[pos + 1] + 256 * z[pos + 2]
             m == z[pos + 3] + 256 * z[pos + 4]
         IN  IF (z[pos] \div 2) % 4 # 0 \/ n + m # 65535 \/ pos + 4 + n > Len(z)
                 THEN NoData
             ELSE IF z[pos] % 2 = 1
                 THEN [ok |-> TRUE, data |-> SubSeq(z, pos + 5, pos + 4 + n),
                       next |-> pos + 5 + n]
             ELSE LET rest == InflateFrom(z, pos + 5 + n)
                  IN  [ok |-> rest.ok, data |-> SubSeq(z, pos + 5, pos + 4 + n) \o rest.data,
                       next |-> rest.next]

\* zlib header (deflate, FCHECK, no preset dictionary), blocks, Adler-32, nothing after
Inflate(z) ==
    IF Len(z) < 2 \/ z[1] % 16 # 8 \/ (z[1] * 256 + z[2]) % 31 # 0 \/ (z[2] \div 32) % 2 # 0
        THEN NoData
    ELSE LET r == InflateFrom(z, 3)
         IN  IF r.ok /\ r.next + 3 = Len(z)
                  /\ SubSeq(z, r.next, r.next + 3) = Bytes32(adler32(r.data))
                 THEN r
                 ELSE NoData

\* the bytes the call has written to its destination
Written == files[size]

\* the call has left the rasterizer loop
Rastered == pc \notin {"idle", "raster"}

\* the call has written the file
Wrote == pc \in {"close", "done"}

\* channel c (1..4) of the pixel at column x (from 0) of row r (from 1) of pixels
Px(r, x) == SubSeq(pixels[r], 4 * x + 1, 4 * x + 4)

\* buf is the signature followed by exactly the chunks IHDR, IDAT, IEND and nothing else
Layout(buf) ==
    /\ Len(buf) >= Len(sig)
    /\ SubSeq(buf, 1, Len(sig)) = sig
    /\ LET ch == Chunks(buf)
       IN  /\ Len(ch) = 3
           /\ ch[1].type = IHDR
           /\ ch[2].type = IDAT
           /\ ch[3].type = IEND

\* rows above the shield (ny < -0.85) and below it (ny > 0.85), for 0-based row yy
RowAbove(sz, yy) == 20 * (2 * yy - sz) < (0 - 17) * sz
RowBelow(sz, yy) == 20 * (2 * yy - sz) > 17 * sz

(***************************************************************************)
(* Properties.                                                             *)
(***************************************************************************)

\* C1: left-right mirror symmetry: for every size > 0, every row y and every column x,
\* the pixel at (x, y) equals the pixel at (size-1-x, y).
C1_MirrorSymmetry ==
    size > 0 =>
        \A r \in 1..Len(pixels) : \A x \in 0..(size - 1) : Px(r, x) = Px(r, size - 1 - x)

\* C2: a call with size <= 0 fails with InvalidDimension before any image is produced:
\* once past the entry of the call it has raised InvalidDimension, and it has assembled no
\* PNG bytes and opened no file.
C2_InvalidSizeRejected ==
    (size <= 0 /\ pc \notin {"idle", "raster"}) =>
        /\ pc = "raised"
        /\ err = "InvalidDimension"
        /\ png = <<>>
        /\ opens = 0

\* C3: for every size > 0 the rasterizer produces exactly size rows (y rows while it is
\* still in the row loop), each of exactly 4*size channel bytes, every byte in 0..255.
C3_Dimensions ==
    size > 0 =>
        /\ Len(pixels) = (IF Rastered THEN size ELSE y)
        /\ \A r \in 1..Len(pixels) :
              /\ Len(pixels[r]) = 4 * size
              /\ \A c \in 1..Len(pixels[r]) : pixels[r][c] \in 0..255

C3_Witness ==
    /\ Rastered
    /\ size >= 8
    /\ \E r \in 1..Len(pixels) : \E x \in 0..(size - 1) : Px(r, x) = Navy
    /\ \E r \in 1..Len(pixels) : \E x \in 0..(size - 1) : Px(r, x) = Transparent

\* C4: round trip: for every size > 0, inflating the data of the IDAT chunk of the file
\* written gives exactly height * (1 + width*4) bytes, and the bytes after the first of
\* every (1 + width*4)-byte row, read in groups of four, are the pixels of the grid, rows
\* top to bottom and columns left to right.
C4_RoundTrip ==
    (Wrote /\ size > 0) =>
        LET ch == Chunks(Written)
            stride == 1 + size * 4
        IN  /\ Len(ch) >= 2
            /\ ch[2].type = IDAT
            /\ LET inf == Inflate(ch[2].data)
               IN  /\ inf.ok
                   /\ Len(inf.data) = size * stride
                   /\ Len(pixels) = size
                   /\ \A r \in 1..size : \A x \in 0..(size - 1) :
                         SubSeq(inf.data, (r - 1) * stride + 4 * x + 2,
                                (r - 1) * stride + 4 * x + 5) = Px(r, x)

C4_Witness ==
    /\ Wrote
    /\ size >= 8
    /\ Inflate(Chunks(Written)[2].data).ok
    /\ \E r \in 1..size : \E x \in 0..(size - 1) : Px(r, x) = Accent

\* C5: for every size > 0 the bytes written are the 8-byte signature followed by exactly
\* three framed chunks, IHDR then one IDAT then IEND, no other chunk, no trailing bytes.
C5_FileLayout == (Wrote /\ size > 0) => Layout(Written)

C5_Witness == pc = "done" /\ size > 0 /\ Len(Written) > Len(sig) + 36 + 13

\* C6: for every size > 0 the output begins with the signature, 00 00 00 0D, 'IHDR',
\* size as 4-byte big-endian width and again as height, then 08 06 00 00 00, and it ends
\* with the IEND chunk 00 00 00 00 49 45 4E 44 AE 42 60 82.
C6_HeaderTrailer ==
    (Wrote /\ size > 0) =>
        LET be == <<(size \div 16777216) % 256, (size \div 65536) % 256,
                    (size \div 256) % 256, size % 256>>
            n == Len(Written)
        IN  /\ n >= 29 + 12
            /\ SubSeq(Written, 1, 29) =
                   <<137, 80, 78, 71, 13, 10, 26, 10, 0, 0, 0, 13, 73, 72, 68, 82>>
                   \o be \o be \o <<8, 6, 0, 0, 0>>
            /\ SubSeq(Written, n - 11, n) = <<0, 0, 0, 0, 73, 69, 78, 68, 174, 66, 96, 130>>

C6_Witness == Wrote /\ size = 14 /\ SubSeq(Written, 17, 24) = <<0, 0, 0, 14, 0, 0, 0, 14>>

\* C7: for every size > 0, the CRC field of each of the three chunks of the output is the
\* CRC-32, started afresh for the chunk, of its 4 type bytes followed by its data bytes.
C7_ChunkCrc ==
    (Wrote /\ size > 0) =>
        LET ch == Chunks(Written)
        IN  /\ Len(ch) = 3
            /\ \A k \in 1..3 : ch[k].crc = Bytes32(crc32(ch[k].type \o ch[k].data))

C7_Witness ==
    /\ Wrote
    /\ size > 1
    /\ Len(Chunks(Written)) = 3
    /\ Len(Chunks(Written)[2].data) > 13

\* C8: for every size > 0, the length field of each chunk of the output is the number of
\* bytes of its data section (the IHDR data, the compressed data, nothing), type and CRC
\* not counted; the IHDR length is 13 and the IEND length is 0.
C8_ChunkLength ==
    (Wrote /\ size > 0) =>
        LET ch == Chunks(Written)
        IN  /\ Len(ch) = 3
            /\ ch[1].data = ihdr /\ ch[1].length = Len(ihdr) /\ ch[1].length = 13
            /\ ch[2].data = compressed /\ ch[2].length = Len(compressed)
            /\ ch[3].data = <<>> /\ ch[3].length = 0
            /\ Len(Written) = Len(sig) + 3 * 12 + 13 + Len(compressed)

C8_Witness ==
    /\ Wrote
    /\ size > 1
    /\ Len(Chunks(Written)) = 3
    /\ Chunks(Written)[2].length > 13
    /\ Chunks(Written)[2].length = Len(compressed)

\* C9: for every size > 0, every pixel of a row with ny < -0.85 or ny > 0.85 is (0,0,0,0),
\* whatever its column.
C9_TransparentRows ==
    size > 0 =>
        \A r \in 1..Len(pixels) :
            (RowAbove(size, r - 1) \/ RowBelow(size, r - 1)) =>
                \A x \in 0..(size - 1) : Px(r, x) = Transparent

C9_Witness ==
    /\ Rastered
    /\ size > 0
    /\ \E r \in 1..Len(pixels) : RowAbove(size, r - 1)
    /\ \E r \in 1..Len(pixels) : RowBelow(size, r - 1)
    /\ \E r \in 1..Len(pixels) : \E x \in 0..(size - 1) : Px(r, x) # Transparent

\* C10: when the compression step fails, the call ends with that exception and has neither
\* opened nor written the destination, which is as it was; in every run the destination is
\* opened and changed only once the signature and all three chunks are assembled, and a
\* call that completes has opened it once and written it once.
C10_NoPartialFile ==
    /\ [](err = "zlib.error" => (pc = "raised" /\ opens = 0 /\ writes = 0 /\ ~fopen))
    /\ [](pc = "done" => (opens = 1 /\ writes = 1 /\ Written = png))
    /\ [][/\ (err' = "zlib.error" => (files' = files /\ exists' = exists))
          /\ (files' # files \/ exists' # exists \/ opens' > opens \/ writes' > writes
              \/ (fopen' /\ ~fopen))
                 => (pc \in {"open", "write"} /\ Layout(png) /\ png' = png)]_vars

C10_Witness ==
    /\ pc = "raised"
    /\ err = "zlib.error"
    /\ size > 0
    /\ size \in exists
    /\ Written = Stale
    /\ raw # <<>>

\* C11: with the calls for the different sizes run as concurrent tasks, under every
\* interleaving of their steps, the file of a task that has finished holds the bytes the
\* sequential run writes for its size, whatever the other tasks do before or after; a file
\* no task has opened is as it was, and a task changes no file but its own icon-{size}.png.
C11_Independence ==
    /\ [](\A t \in Tasks : pc[t] = "done" => files[Path(size[t])] = SequentialPng(size[t]))
    /\ [](\A p \in Sizes :
             (\A t \in Tasks : Path(size[t]) = p => opens[t] = 0) =>
                 files[p] = (IF p \in exists THEN Stale ELSE <<>>))
    /\ [][\A t \in Tasks : pc'[t] # pc[t] =>
             \A p \in Sizes : files'[p] # files[p] => p = size[t]]_vars

C11_Witness ==
    /\ \A t \in Tasks : pc[t] = "done"
    /\ \E t, u \in Tasks : size[t] # size[u]
    /\ \A t \in Tasks : Len(files[size[t]]) > Len(sig)

\* C12: a call's pixel grid and PNG bytes are a function of its size alone, whatever calls
\* came before and whatever the destination held: the grid is Grid(size), the bytes built
\* and the file written are SequentialPng(size), and when a call is about to overwrite the
\* file an earlier call for the same size wrote, that file holds this call's bytes and
\* decodes to this call's scanlines.
C12_Determinism ==
    /\ [](Rastered => pixels = Grid(size))
    /\ [](pc \in {"open", "write", "close", "done"} => png = SequentialPng(size))
    /\ [](Wrote => Written = png)
    /\ [][(pc = "open" /\ pc' = "write" /\ calls > 1 /\ Len(Written) > Len(Stale)) =>
             /\ Written = png
             /\ Inflate(Chunks(Written)[2].data).data = raw]_vars

C12_Witness ==
    /\ calls = 2
    /\ pc = "open"
    /\ size = 2
    /\ Len(Written) > Len(Stale)

\* the raw scanlines have been assembled (lines 52-54 have run)
RawBuilt ==
    pc \in {"compress", "png_sig", "png_ihdr", "png_idat", "png_iend", "open", "write",
            "close", "done"}

\* C13: the uncompressed IDAT payload has height * (1 + width*4) bytes; for each row, top to
\* bottom, it holds one byte 0 and then the row's pixels left to right, four bytes R,G,B,A
\* each; the byte at every offset that is a multiple of (1 + width*4) is 0.
C13_Scanlines ==
    RawBuilt =>
        LET stride == 1 + size * 4
        IN  /\ Len(raw) = size * stride
            /\ \A r \in 1..size :
                  /\ raw[(r - 1) * stride + 1] = 0
                  /\ SubSeq(raw, (r - 1) * stride + 2, r * stride) = pixels[r]
                  /\ \A x \in 0..(size - 1) :
                        SubSeq(raw, (r - 1) * stride + 4 * x + 2,
                               (r - 1) * stride + 4 * x + 5) = Pixel(size, x, r - 1)
            /\ \A k \in 0..(Len(raw) - 1) : k % stride = 0 => raw[k + 1] = 0

C13_Witness ==
    /\ RawBuilt
    /\ size = MaxSize
    /\ \E r \in 2..size : pixels[r] # pixels[1]
    /\ \E r \in 1..size : \E x \in 0..(size - 1) : Px(r, x) = Accent

\* the silhouette as stated: exact values of the stated formulas
RLe(p, q) == ~RGt(p, q)

StatedProgress(n) == RDiv(RSub(n, Rat(0 - 85, 100)), Rat(17, 10))

StatedMaxX(p) ==
    IF RLt(p, Rat(6, 10))
        THEN Rat(75, 100)
        ELSE RMul(Rat(75, 100),
                  RSub(RInt(1), RDiv(RMul(Rat(85, 100), RSub(p, Rat(6, 10))), Rat(4, 10))))

StatedRows(n) == RLe(Rat(0 - 85, 100), n) /\ RLe(n, Rat(85, 100))

StatedInside(sz, x, yy) ==
    /\ StatedRows(ny(sz, yy))
    /\ RLe(RAbs(nx(sz, x)), StatedMaxX(StatedProgress(ny(sz, yy))))

\* C14: for every size > 0 a pixel has alpha 255 exactly when -0.85 <= ny <= 0.85 and
\* |nx| <= max_x, with progress = (ny + 0.85)/1.7 and max_x = 0.75 for progress < 0.6,
\* 0.75 * (1 - 0.85 * (progress - 0.6)/0.4) otherwise; every other pixel is (0,0,0,0);
\* progress is in [0,1] for every pixel that passes the ny test.
C14_Silhouette ==
    Len(pixels) > 0 =>
        \A x \in 0..(size - 1) :
            /\ Px(Len(pixels), x)[4] = 255 <=> StatedInside(size, x, Len(pixels) - 1)
            /\ ~StatedInside(size, x, Len(pixels) - 1) => Px(Len(pixels), x) = Transparent
            /\ StatedRows(ny(size, Len(pixels) - 1)) =>
                  /\ RLe(RInt(0), StatedProgress(ny(size, Len(pixels) - 1)))
                  /\ RLe(StatedProgress(ny(size, Len(pixels) - 1)), RInt(1))

\* the border conditions as stated, in exact values
StatedBorder(sz, x, yy) ==
    LET p == StatedProgress(ny(sz, yy))
    IN  \/ RGt(RDiv(RAbs(nx(sz, x)), StatedMaxX(p)), Rat(85, 100))
        \/ RLt(p, Rat(5, 100))
        \/ RGt(p, Rat(95, 100))

LastMaxX == f_max_x(f_progress(f_ny(size, Len(pixels) - 1)))

LastInRows == Len(pixels) > 0 /\ ~f_OutsideRows(f_ny(size, Len(pixels) - 1))

\* C16 as stated: the half-width max_x reaches 0 as taper approaches 1, the shield being a
\* point at progress = 1: in a row with progress = 1 max_x is 0 and no pixel off the axis
\* nx = 0 is opaque; and a pixel with max_x <= 0 has border ratio 0.
C16_ZeroHalfWidth ==
    /\ (LastInRows /\ StatedProgress(ny(size, Len(pixels) - 1)) = RInt(1)) =>
          /\ float_cmp(LastMaxX, float(0)) = 0
          /\ \A x \in 0..(size - 1) :
                Px(Len(pixels), x)[4] = 255 => nx(size, x) = RInt(0)
    /\ f_border_ratio(Lit075, float(0)) = float(0)

\* C16 amended: max_x never reaches 0.  It is 0.75 up to progress 0.6 and falls to
\* 0.75 * 0.15 = 0.1125 at progress = 1, where the shield ends in a flat edge of half-width
\* 0.1125; for every pixel that passes the ny test 0.11 < max_x <= 0.75, so the test
\* max_x > 0 of the border ratio always succeeds, the ratio is abs(nx) / max_x, its
\* fallback 0 is never taken, and no division by zero occurs.
C16_HalfWidthPositive ==
    /\ max_x(RInt(1)) = Rat(1125, 10000)
    /\ LastInRows =>
          /\ float_gt(LastMaxX, literal(11, 100))
          /\ ~float_gt(LastMaxX, Lit075)
          /\ f_border_ratio(Lit075, LastMaxX) = float_div(Lit075, LastMaxX)
          /\ StatedProgress(ny(size, Len(pixels) - 1)) = RInt(1) =>
                \A x \in 0..(size - 1) :
                    Px(Len(pixels), x)[4] = 255 <=>
                        RLe(RAbs(nx(size, x)), Rat(1125, 10000))

\* a row with progress = 1 has been emitted, with opaque pixels off the axis
C16_Witness ==
    /\ LastInRows
    /\ StatedProgress(ny(size, Len(pixels) - 1)) = RInt(1)
    /\ \E x \in 0..(size - 1) : Px(Len(pixels), x)[4] = 255 /\ nx(size, x) # RInt(0)

\* C17: for every size > 0, every row y and every column x with 1 <= x <= size - 1, the
\* pixel at (x, y) equals the pixel at (size - x, y); column 0 has nx = -1 and is transparent
\* in every row.
C17_MirrorAxis ==
    Len(pixels) > 0 =>
        /\ \A x \in 1..(size - 1) : Px(Len(pixels), x) = Px(Len(pixels), size - x)
        /\ Px(Len(pixels), 0) = Transparent
        /\ float_cmp(NxOf[size][0], float(0 - 1)) = 0
        /\ \A x \in 1..(size - 1) : float_cmp(NxOf[size][size - x], float_neg(NxOf[size][x])) = 0

\* a row whose column 1 is opaque, so that columns 1 and size - 1 agree on a shield pixel
\* while column 0 is transparent and column size - 1 is not
C17_Witness ==
    /\ Len(pixels) > 0
    /\ size > 2
    /\ Px(Len(pixels), 1) = Accent
    /\ Px(Len(pixels), size - 1) = Accent
    /\ \E x \in 2..(size - 2) : Px(Len(pixels), x) = Navy

=============================================================================
